---------------------------- MODULE Spec2Model ----------------------------
(***************************************************************************)
(* A model of git-analyzer (src/src/main.rs): the work-pattern classifier, *)
(* the contributor fold, the file-change tracker and the command driver    *)
(* with its repository source resolver.                                    *)
(*                                                                         *)
(* Four specifications share the module, one per part of the program:      *)
(*   SpecPattern  calculate_work_pattern, its loop taken one element at a  *)
(*                time;                                                    *)
(*   SpecContrib  collect_contributor_data, one revwalk element per step;  *)
(*   SpecFiles    collect_file_data over a linear history;                 *)
(*   SpecCli      main, get_repo_path and the analyze_* commands.          *)
(* The variables of the parts a specification does not run stay at their   *)
(* idle values.                                                            *)
(***************************************************************************)
EXTENDS Integers, Sequences, FiniteSets, Bags, TLC

VARIABLES
    \* calculate_work_pattern
    wp_pc,            \* "idle" | "loop" | "done"
    wp_seen,          \* the elements of commit_times the loop has consumed (a bag)
    wp_len,           \* commit_times.len() so far
    day_commits, night_commits, weekend_commits,
    work_pattern      \* the WorkPattern returned, NoValue before

wp_vars == <<wp_pc, wp_seen, wp_len, day_commits, night_commits,
             weekend_commits, work_pattern>>

VARIABLES
    \* collect_contributor_data
    cc_pc,                \* "idle" | "walk" | "done" | "failed"
    walked,               \* the commits the revwalk has yielded, in visit order
    contributors,         \* HashMap<String, (ContributorStats, Vec<DateTime<Utc>>)>
    sorted_contributors   \* the Vec returned, NoValue before

cc_vars == <<cc_pc, walked, contributors, sorted_contributors>>

VARIABLES
    \* collect_file_data
    fl_pc,          \* "idle" | "walk" | "done" | "failed"
    repo,           \* the history: repo[1] is the root commit, the last is HEAD
    fl_next,        \* the index in repo of the commit the revwalk yields next
    file_stats,     \* HashMap<String, FileStats>
    sorted_files    \* the Vec returned, NoValue before

fl_vars == <<fl_pc, repo, fl_next, file_stats, sorted_files>>

VARIABLES
    \* main, get_repo_path, analyze_*
    pc,             \* where main is
    command,        \* "contributors" | "activity" | "files" | "all"
    url,            \* the --url argument: "none" | "malformed" | "valid"
    json,           \* the --json flag
    TEMP_DIRS,      \* the registry: the TempDirs pushed, in order
    temp_dir,       \* get_repo_path's local TempDir, NoValue when it holds none
    disk,           \* the temporary directories that exist on disk
    repo_path,      \* the path get_repo_path returned, NoValue before
    callback_calls, \* how many clone callbacks have run
    last_callback,  \* how the latest transfer-progress callback ended
    todo,           \* the analyses the command has still to run, in order
    status,         \* per analysis: "not_started" | "running" | "ok" | "failed"
    stdout,         \* what has been printed, in order
    exit            \* "running" | "ok" | "error" | "panic"

cli_vars == <<pc, command, url, json, TEMP_DIRS, temp_dir, disk, repo_path,
              callback_calls, last_callback, todo, status, stdout, exit>>

vars == <<wp_vars, cc_vars, fl_vars, cli_vars>>

NoValue == "none"

(***************************************************************************)
(* Bounds.                                                                 *)
(***************************************************************************)
MaxTimes == 10
MaxCommits == 5
MaxHistory == 3
MaxCallbacks == 2
MaxObjects == 2

(***************************************************************************)
(* chrono: a DateTime<Utc> is modelled as its seconds since 1970-01-01     *)
(* 00:00:00 UTC (a Thursday).  \div and % round towards minus infinity,    *)
(* as chrono's calendar arithmetic does for instants before the epoch.     *)
(***************************************************************************)
SecondsPerHour == 3600
SecondsPerDay  == 86400

\* Timelike::hour of a DateTime<Utc>: 0..23
hour(time) == (time % SecondsPerDay) \div SecondsPerHour

\* Datelike::weekday, numbered from Monday: 0 = Mon .. 5 = Sat, 6 = Sun
weekday(time) == ((time \div SecondsPerDay) + 3) % 7

Sat == 5
Sun == 6

\* Instants used as inputs, each named by what it is.
At(day, h, m) == day * SecondsPerDay + h * SecondsPerHour + m * 60
Thu1000 == At(0, 10, 0)     \* Thu 1970-01-01 10:00  weekday, day
Thu2300 == At(0, 23, 0)     \* Thu 1970-01-01 23:00  weekday, night
Fri1800 == At(1, 18, 0)     \* Fri 1970-01-02 18:00  weekday, first night hour
Sat0200 == At(2, 2, 0)      \* Sat 1970-01-03 02:00  weekend, night
Sun1200 == At(3, 12, 0)     \* Sun 1970-01-04 12:00  weekend, day
Mon0900 == At(4, 9, 0)      \* Mon 1970-01-05 09:00  weekday, first day hour
Wed1759 == At(-1, 17, 59)   \* Wed 1969-12-31 17:59  weekday, last day minute

PatternTimes == {Thu1000, Thu2300, Fri1800, Sat0200, Sun1200, Mon0900, Wed1759}

(***************************************************************************)
(* f32 ratios.  A ratio is kept as an exact fraction [num, den], den > 0.  *)
(* The code divides two u32 counts in f32 and compares with f32 literals;  *)
(* with counts this small (far below 2^24) both sides are the correctly    *)
(* rounded value of a fraction whose distance from the literal, when not   *)
(* zero, is many f32 steps, so the f32 comparison and the exact comparison *)
(* agree.                                                                  *)
(***************************************************************************)
Rat(n, d) == [num |-> n, den |-> d]
RatGE(a, b) == a.num * b.den >= b.num * a.den
RatLT(a, b) == a.num * b.den < b.num * a.den
RatEq(a, b) == a.num * b.den = b.num * a.den
RatAdd(a, b) == Rat(a.num * b.den + b.num * a.den, a.den * b.den)
RatSub(a, b) == Rat(a.num * b.den - b.num * a.den, a.den * b.den)
RatMul(a, b) == Rat(a.num * b.num, a.den * b.den)
RatAbs(a) == Rat(IF a.num < 0 THEN -a.num ELSE a.num, a.den)
RatMin(a, b) == IF RatLT(b, a) THEN b ELSE a
One == Rat(1, 1)
Zero == Rat(0, 1)

(***************************************************************************)
(* calculate_work_pattern (main.rs 287-330).                               *)
(***************************************************************************)
\* main.rs 296: weekday == Weekday::Sat || weekday == Weekday::Sun
IsWeekend(time) == weekday(time) = Sat \/ weekday(time) = Sun

\* main.rs 300: hour >= 9 && hour < 18
IsDayHour(time) == hour(time) >= 9 /\ hour(time) < 18

\* One pass of the loop body (main.rs 292-305) over the three tallies.
TallyStep(tally, time) ==
    [day     |-> IF IsDayHour(time) THEN tally.day + 1 ELSE tally.day,
     night   |-> IF IsDayHour(time) THEN tally.night ELSE tally.night + 1,
     weekend |-> IF IsWeekend(time) THEN tally.weekend + 1 ELSE tally.weekend]

ZeroTally == [day |-> 0, night |-> 0, weekend |-> 0]

\* main.rs 313: total_commits < 5
InsufficientDataLoose(total_commits) == total_commits < 4
InsufficientData(total_commits) == total_commits < 5

\* main.rs 315: day_ratio >= 0.7 && weekend_ratio < 0.3
IsDayWorkerStrict(day_ratio, weekend_ratio) ==
    RatLT(Rat(7, 10), day_ratio) /\ RatLT(weekend_ratio, Rat(3, 10))
IsDayWorker(day_ratio, weekend_ratio) ==
    RatGE(day_ratio, Rat(7, 10)) /\ RatLT(weekend_ratio, Rat(3, 10))

\* main.rs 317: night_ratio >= 0.6 || weekend_ratio >= 0.4
IsMoonlighter(night_ratio, weekend_ratio) ==
    RatGE(night_ratio, Rat(6, 10)) \/ RatGE(weekend_ratio, Rat(4, 10))

\* main.rs 318: (night_ratio + weekend_ratio * 0.5).min(1.0)
MoonlighterConfidenceUnclamped(night_ratio, weekend_ratio) ==
    RatAdd(night_ratio, RatMul(weekend_ratio, Rat(1, 2)))
MoonlighterConfidence(night_ratio, weekend_ratio) ==
    RatMin(RatAdd(night_ratio, RatMul(weekend_ratio, Rat(1, 2))), One)

\* main.rs 320: 1.0 - (day_ratio - night_ratio).abs()
MixedConfidence(day_ratio, night_ratio) ==
    RatSub(One, RatAbs(RatSub(day_ratio, night_ratio)))

\* main.rs 307-329: the ratios, the decision and the WorkPattern built.
\* With total_commits = 0 the three ratios are NaN in the code; the first
\* branch is taken before any of them is compared.
BuildWorkPattern(tally, total_commits) ==
    LET day_ratio     == Rat(tally.day, total_commits)
        night_ratio   == Rat(tally.night, total_commits)
        weekend_ratio == Rat(tally.weekend, total_commits)
        decision ==
            IF InsufficientData(total_commits)
            THEN <<"unknown", Zero>>
            ELSE IF IsDayWorker(day_ratio, weekend_ratio)
            THEN <<"day_worker", day_ratio>>
            ELSE IF IsMoonlighter(night_ratio, weekend_ratio)
            THEN <<"moonlighter", MoonlighterConfidence(night_ratio, weekend_ratio)>>
            ELSE <<"mixed", MixedConfidence(day_ratio, night_ratio)>>
    IN  [pattern_type    |-> decision[1],
         day_commits     |-> tally.day,
         night_commits   |-> tally.night,
         weekend_commits |-> tally.weekend,
         confidence      |-> decision[2]]

\* The loop of main.rs 292-305 over a whole slice.
RECURSIVE TallyOf(_)
TallyOf(commit_times) ==
    IF commit_times = <<>> THEN ZeroTally
    ELSE TallyStep(TallyOf(SubSeq(commit_times, 1, Len(commit_times) - 1)),
                   commit_times[Len(commit_times)])

\* calculate_work_pattern as a function of its argument.
calculate_work_pattern(commit_times) ==
    BuildWorkPattern(TallyOf(commit_times), Len(commit_times))

(***************************************************************************)
(* SpecPattern: calculate_work_pattern run on every slice of at most       *)
(* MaxTimes instants of PatternTimes.  The slice is read one element per   *)
(* loop step; wp_seen keeps what was read.                                 *)
(***************************************************************************)
WPIdle ==
    /\ wp_pc = "idle"
    /\ wp_seen = EmptyBag
    /\ wp_len = 0
    /\ day_commits = 0 /\ night_commits = 0 /\ weekend_commits = 0
    /\ work_pattern = NoValue

\* main.rs 288-290: the three tallies start at 0.
WPInit ==
    /\ wp_pc = "loop"
    /\ wp_seen = EmptyBag
    /\ wp_len = 0
    /\ day_commits = 0 /\ night_commits = 0 /\ weekend_commits = 0
    /\ work_pattern = NoValue

\* main.rs 292-305: the loop body on the next element of commit_times.
WPLoop(time) ==
    /\ wp_pc = "loop"
    /\ wp_len < MaxTimes
    /\ LET t == TallyStep([day |-> day_commits, night |-> night_commits,
                           weekend |-> weekend_commits], time)
       IN  /\ day_commits' = t.day
           /\ night_commits' = t.night
           /\ weekend_commits' = t.weekend
    /\ wp_seen' = wp_seen (+) SetToBag({time})
    /\ wp_len' = wp_len + 1
    /\ UNCHANGED <<wp_pc, work_pattern, cc_vars, fl_vars, cli_vars>>

\* main.rs 307-329: the slice is exhausted; decide and return.
WPReturn ==
    /\ wp_pc = "loop"
    /\ work_pattern' =
          BuildWorkPattern([day |-> day_commits, night |-> night_commits,
                            weekend |-> weekend_commits], wp_len)
    /\ wp_pc' = "done"
    /\ UNCHANGED <<wp_seen, wp_len, day_commits, night_commits, weekend_commits,
                   cc_vars, fl_vars, cli_vars>>

(***************************************************************************)
(* calculate_hourly_distribution (main.rs 332-341): hour -> count, with an *)
(* entry only for the hours that occur.                                    *)
(***************************************************************************)
RECURSIVE calculate_hourly_distribution(_)
calculate_hourly_distribution(commit_times) ==
    IF commit_times = <<>> THEN <<>>
    ELSE LET rest == calculate_hourly_distribution(
                         SubSeq(commit_times, 1, Len(commit_times) - 1))
             h == hour(commit_times[Len(commit_times)])
         IN  IF h \in DOMAIN rest
             THEN [rest EXCEPT ![h] = @ + 1]
             ELSE rest @@ (h :> 1)

(***************************************************************************)
(* collect_contributor_data (main.rs 224-285).                             *)
(*                                                                         *)
(* A commit as the revwalk yields it: the author's name and email, each    *)
(* possibly absent (git2 returns None for a name or email that is not      *)
(* UTF-8), and the author time: its seconds, or beyond_chrono when the     *)
(* i64 lies outside the instants chrono can represent (seconds then holds  *)
(* a stand-in for the value, too large to write down here).                *)
(***************************************************************************)
Absent == "<absent>"

Commit(name, email, seconds, beyond) ==
    [name |-> name, email |-> email, seconds |-> seconds, beyond_chrono |-> beyond]

CommitInputs ==
    { Commit("Alice", "a@x.com", Thu1000, FALSE),
      Commit("Alice", "a@x.com", Sat0200, FALSE),
      Commit("Bob", Absent, Mon0900, TRUE),
      Commit(Absent, Absent, Thu2300, FALSE),
      Commit("Unknown", "unknown@example.com", Sun1200, FALSE) }

\* main.rs 234: author.name().unwrap_or("Unknown")
author_name_of(commit) == IF commit.name = Absent THEN "Unknown" ELSE commit.name

\* main.rs 235: author.email().unwrap_or("unknown@example.com")
author_email_no_default(commit) == IF commit.email = Absent THEN "" ELSE commit.email
author_email_of(commit) ==
    IF commit.email = Absent THEN "unknown@example.com" ELSE commit.email

\* main.rs 236-238: DateTime::from_timestamp(seconds, 0).unwrap_or_default()
commit_time_of(commit) == IF commit.beyond_chrono THEN 0 ELSE commit.seconds

\* main.rs 240: format!("{} <{}>", author_name, author_email)
key_of(author_name, author_email) == author_name \o " <" \o author_email \o ">"

\* main.rs 243-252: the and_modify closure on an entry already present.
and_modify_first_is_latest_visited(entry, commit_time) ==
    [stats |-> [entry.stats EXCEPT
                   !.commits = @ + 1,
                   !.first_commit = commit_time,
                   !.last_commit = IF commit_time > @ THEN commit_time ELSE @],
     times |-> Append(entry.times, commit_time)]
and_modify(entry, commit_time) ==
    [stats |-> [entry.stats EXCEPT
                   !.commits = @ + 1,
                   !.first_commit = IF commit_time < @ THEN commit_time ELSE @,
                   !.last_commit = IF commit_time > @ THEN commit_time ELSE @],
     times |-> Append(entry.times, commit_time)]

\* main.rs 253-270: the entry inserted for a key seen for the first time.
or_insert(author_name, author_email, commit_time) ==
    [stats |-> [name |-> author_name,
                email |-> author_email,
                commits |-> 1,
                first_commit |-> commit_time,
                last_commit |-> commit_time,
                work_pattern |-> [pattern_type |-> "unknown",
                                  day_commits |-> 0,
                                  night_commits |-> 0,
                                  weekend_commits |-> 0,
                                  confidence |-> Zero],
                hourly_commits |-> <<>>],
     times |-> <<commit_time>>]

\* main.rs 232-270: the loop body, on the map and one commit.
contributor_step(map, commit) ==
    LET author_name  == author_name_of(commit)
        author_email == author_email_of(commit)
        commit_time  == commit_time_of(commit)
        key          == key_of(author_name, author_email)
    IN  IF key \in DOMAIN map
        THEN [map EXCEPT ![key] = and_modify(@, commit_time)]
        ELSE map @@ (key :> or_insert(author_name, author_email, commit_time))

\* main.rs 230-271: the loop over a whole sequence of commits, from the
\* empty map.
RECURSIVE fold_contributors(_)
fold_contributors(commits) ==
    IF commits = <<>> THEN <<>>
    ELSE contributor_step(fold_contributors(SubSeq(commits, 1, Len(commits) - 1)),
                          commits[Len(commits)])

\* main.rs 275-279: the closure of the final map().
finish_stats(entry) ==
    [entry.stats EXCEPT
        !.work_pattern = calculate_work_pattern(entry.times),
        !.hourly_commits = calculate_hourly_distribution(entry.times)]

\* The orders in which a HashMap may hand out the keys in S.
Orderings(S) ==
    { s \in [1..Cardinality(S) -> S] :
        \A i, j \in 1..Cardinality(S) : i # j => s[i] # s[j] }

\* main.rs 273-282: into_iter (in the map's own order), map, collect and the
\* stable sort by commits, descending: every order of the keys that is
\* descending in commits can come out.
sorted_results(map) ==
    { [i \in 1..Cardinality(DOMAIN map) |-> finish_stats(map[order[i]])] :
        order \in { o \in Orderings(DOMAIN map) :
                      \A i \in 1..(Cardinality(DOMAIN map) - 1) :
                          map[o[i]].stats.commits >= map[o[i + 1]].stats.commits } }

CCIdle ==
    /\ cc_pc = "idle"
    /\ walked = <<>>
    /\ contributors = <<>>
    /\ sorted_contributors = NoValue

\* main.rs 225-228: an empty map; revwalk() and push_head() succeeded.
CCInit ==
    /\ cc_pc = "walk"
    /\ walked = <<>>
    /\ contributors = <<>>
    /\ sorted_contributors = NoValue

\* main.rs 230-271: the revwalk yields one more commit.
CCVisit(commit) ==
    /\ cc_pc = "walk"
    /\ Len(walked) < MaxCommits
    /\ walked' = Append(walked, commit)
    /\ contributors' = contributor_step(contributors, commit)
    /\ UNCHANGED <<cc_pc, sorted_contributors, wp_vars, fl_vars, cli_vars>>

\* main.rs 231-232: `oid?` or `find_commit(oid)?` returns the error; the map
\* is dropped with the frame.
CCWalkError ==
    /\ cc_pc = "walk"
    /\ cc_pc' = "failed"
    /\ contributors' = <<>>
    /\ UNCHANGED <<walked, sorted_contributors, wp_vars, fl_vars, cli_vars>>

\* main.rs 273-284: the revwalk is exhausted (HEAD resolved, so at least one
\* commit was yielded); finish, sort and return.
CCReturn ==
    /\ cc_pc = "walk"
    /\ walked # <<>>
    /\ sorted_contributors' \in sorted_results(contributors)
    /\ cc_pc' = "done"
    /\ UNCHANGED <<walked, contributors, wp_vars, fl_vars, cli_vars>>

(***************************************************************************)
(* collect_file_data (main.rs 461-511).                                    *)
(*                                                                         *)
(* The repository is a linear history: every commit but the root has one   *)
(* parent, the commit before it, and the revwalk pushed at HEAD yields the *)
(* commits from HEAD back to the root.  A tree gives each path its blob,   *)
(* or "absent".                                                            *)
(***************************************************************************)
Paths == {"src/main.rs", "README.md"}
Blobs == {"absent", "v1", "v2"}
Trees == { t \in [Paths -> Blobs] : t["README.md"] # "v2" }
FileTimes == {Thu1000, Sat0200}

RepoCommits ==
    { [tree |-> t, seconds |-> w, beyond_chrono |-> FALSE] :
        t \in Trees, w \in FileTimes }

Histories == UNION { [1..n -> RepoCommits] : n \in 1..MaxHistory }

\* main.rs 478-482: diff_tree_to_tree(parent_tree, tree) and the paths
\* delta.new_file().path() gives: one delta per path whose blob differs, an
\* added, a modified and a deleted path alike (libgit2 fills the new side's
\* path of a deletion with the old path).
diff_new_paths(parent_tree, tree) == { p \in Paths : parent_tree[p] # tree[p] }

\* main.rs 486-491: the and_modify closure on a path already recorded.
file_and_modify_overwrite(stats, commit_time) ==
    [stats EXCEPT !.commits = @ + 1, !.last_modified = commit_time]
file_and_modify(stats, commit_time) ==
    [stats EXCEPT !.commits = @ + 1,
                  !.last_modified = IF commit_time > @ THEN commit_time ELSE @]

\* main.rs 492-496: the FileStats inserted for a path seen for the first time.
file_or_insert(path_str, commit_time) ==
    [path |-> path_str, commits |-> 1, last_modified |-> commit_time]

\* main.rs 480-503: diff.foreach over the deltas of one commit.
RECURSIVE diff_foreach(_, _, _)
diff_foreach(map, paths, commit_time) ==
    IF paths = {} THEN map
    ELSE LET path_str == CHOOSE p \in paths : TRUE
             updated ==
                 IF path_str \in DOMAIN map
                 THEN [map EXCEPT ![path_str] = file_and_modify(@, commit_time)]
                 ELSE map @@ (path_str :> file_or_insert(path_str, commit_time))
         IN  diff_foreach(updated, paths \ {path_str}, commit_time)

\* main.rs 476: commit.parents().next()
has_parent(index) == index > 1

\* main.rs 469-504: the loop body on the commit at index.
file_step(map, history, index) ==
    IF has_parent(index)
    THEN diff_foreach(map,
                      diff_new_paths(history[index - 1].tree, history[index].tree),
                      commit_time_of(history[index]))
    ELSE map

\* main.rs 507-508: into_values (in the map's own order), collect and the
\* stable sort by commits, descending.
sorted_file_results(map) ==
    { [i \in 1..Cardinality(DOMAIN map) |-> map[order[i]]] :
        order \in { o \in Orderings(DOMAIN map) :
                      \A i \in 1..(Cardinality(DOMAIN map) - 1) :
                          map[o[i]].commits >= map[o[i + 1]].commits } }

FLIdle ==
    /\ fl_pc = "idle"
    /\ repo = <<>>
    /\ fl_next = 0
    /\ file_stats = <<>>
    /\ sorted_files = NoValue

\* main.rs 462-465: an empty map; the revwalk starts at HEAD.
FLInit ==
    /\ fl_pc = "walk"
    /\ repo \in Histories
    /\ fl_next = Len(repo)
    /\ file_stats = <<>>
    /\ sorted_files = NoValue

\* main.rs 467-505: the revwalk yields the next commit.
FLVisit ==
    /\ fl_pc = "walk"
    /\ fl_next >= 1
    /\ file_stats' = file_step(file_stats, repo, fl_next)
    /\ fl_next' = fl_next - 1
    /\ UNCHANGED <<fl_pc, repo, sorted_files, wp_vars, cc_vars, cli_vars>>

\* main.rs 468-478, 503: `oid?`, find_commit, tree, diff_tree_to_tree or
\* foreach returns the error; the map is dropped with the frame.
FLWalkError ==
    /\ fl_pc = "walk"
    /\ fl_next >= 1
    /\ fl_pc' = "failed"
    /\ file_stats' = <<>>
    /\ UNCHANGED <<repo, fl_next, sorted_files, wp_vars, cc_vars, cli_vars>>

\* main.rs 507-510: the revwalk is exhausted; sort and return.
FLReturn ==
    /\ fl_pc = "walk"
    /\ fl_next = 0
    /\ sorted_files' \in sorted_file_results(file_stats)
    /\ fl_pc' = "done"
    /\ UNCHANGED <<repo, fl_next, file_stats, wp_vars, cc_vars, cli_vars>>

(***************************************************************************)
(* main, get_repo_path and the analyze_* commands (main.rs 99-222,         *)
(* 343-367, 438-459, 513-519).                                             *)
(***************************************************************************)
Commands == {"contributors", "activity", "files", "all"}
Analyses == {"contributors", "activity", "files"}
LocalPath == "."
CloneDir == "/tmp/.tmpCLONE"

\* main.rs 102-119 and 515-517: the analyses a command runs, in order.
analyses_of(cmd) ==
    IF cmd = "all" THEN <<"contributors", "activity", "files">> ELSE <<cmd>>

\* main.rs 138-149: the transfer-progress closure on one report.  The
\* quotient is taken before total_objects is compared with 0; a usize
\* division by zero panics.
transfer_progress(received_objects, total_objects) ==
    IF total_objects = 0
    THEN [outcome |-> "panic", printed |-> <<>>]
    ELSE [outcome |-> "true",
          printed |-> << <<"receiving", (100 * received_objects) \div total_objects,
                           received_objects, total_objects>> >>]

\* main.rs 515-517: what is left to run when an analysis returned Err: the
\* `?` returns from analyze_all (and from main).
after_failure_keep_going(remaining) == Tail(remaining)
after_failure(remaining) == <<>>

\* main.rs 189-219, 347-364, 442-456: the report an analysis prints.
report_of(analysis, as_json) == <<"report", analysis, IF as_json THEN "json" ELSE "text">>

CLIIdle ==
    /\ pc = "idle"
    /\ command = NoValue /\ url = NoValue /\ json = FALSE
    /\ TEMP_DIRS = <<>> /\ temp_dir = NoValue /\ disk = {}
    /\ repo_path = NoValue
    /\ callback_calls = 0
    /\ last_callback = NoValue
    /\ todo = <<>>
    /\ status = <<>>
    /\ stdout = <<>>
    /\ exit = "running"

\* main.rs 100: the command line is parsed; TEMP_DIRS (13-14) is empty.
CLIInit ==
    /\ pc = "main"
    /\ command \in Commands
    /\ url \in {"none", "malformed", "valid"}
    /\ json \in BOOLEAN
    /\ TEMP_DIRS = <<>> /\ temp_dir = NoValue /\ disk = {}
    /\ repo_path = NoValue
    /\ callback_calls = 0
    /\ last_callback = NoValue
    /\ todo = <<>>
    /\ status = [a \in Analyses |-> "not_started"]
    /\ stdout = <<>>
    /\ exit = "running"

\* main.rs 178-181: no URL; the local path is returned.
GetRepoPathLocal ==
    /\ pc = "main"
    /\ url = "none"
    /\ repo_path' = LocalPath
    /\ pc' = "dispatch"
    /\ UNCHANGED <<command, url, json, TEMP_DIRS, temp_dir, disk, callback_calls,
                   last_callback, todo, status, stdout, exit,
                   wp_vars, cc_vars, fl_vars>>

\* main.rs 128-129: Url::parse fails; the error returns through main.
GetRepoPathInvalidUrl ==
    /\ pc = "main"
    /\ url = "malformed"
    /\ exit' = "error"
    /\ pc' = "main_returned"
    /\ UNCHANGED <<command, url, json, TEMP_DIRS, temp_dir, disk, repo_path,
                   callback_calls, last_callback, todo, status, stdout,
                   wp_vars, cc_vars, fl_vars>>

\* main.rs 132-134: the URL parses; TempDir::new creates the directory.
CloneStart ==
    /\ pc = "main"
    /\ url = "valid"
    /\ stdout' = Append(stdout, <<"cloning">>)
    /\ temp_dir' = CloneDir
    /\ disk' = disk \cup {CloneDir}
    /\ pc' = "cloning"
    /\ UNCHANGED <<command, url, json, TEMP_DIRS, repo_path, callback_calls,
                   last_callback, todo, status, exit, wp_vars, cc_vars, fl_vars>>

\* main.rs 133: TempDir::new()? fails after the first line was printed.
TempDirError ==
    /\ pc = "main"
    /\ url = "valid"
    /\ stdout' = Append(stdout, <<"cloning">>)
    /\ exit' = "error"
    /\ pc' = "main_returned"
    /\ UNCHANGED <<command, url, json, TEMP_DIRS, temp_dir, disk, repo_path,
                   callback_calls, last_callback, todo, status,
                   wp_vars, cc_vars, fl_vars>>

\* main.rs 138-149: the transport reports progress.  A panic of the
\* closure unwinds out of builder.clone and get_repo_path, dropping the
\* local temp_dir (which removes the directory), and ends the process.
TransferProgress(received_objects, total_objects) ==
    /\ pc = "cloning"
    /\ callback_calls < MaxCallbacks
    /\ callback_calls' = callback_calls + 1
    /\ LET r == transfer_progress(received_objects, total_objects)
       IN  /\ last_callback' = r.outcome
           /\ stdout' = stdout \o r.printed
           /\ IF r.outcome = "panic"
              THEN /\ disk' = disk \ {temp_dir}
                   /\ temp_dir' = NoValue
                   /\ exit' = "panic"
                   /\ pc' = "main_returned"
              ELSE UNCHANGED <<disk, temp_dir, exit, pc>>
    /\ UNCHANGED <<command, url, json, TEMP_DIRS, repo_path, todo, status,
                   wp_vars, cc_vars, fl_vars>>

\* main.rs 151-155: the update_tips closure.
UpdateTips ==
    /\ pc = "cloning"
    /\ callback_calls < MaxCallbacks
    /\ callback_calls' = callback_calls + 1
    /\ stdout' = Append(stdout, <<"resolving">>)
    /\ UNCHANGED <<pc, command, url, json, TEMP_DIRS, temp_dir, disk, repo_path,
                   last_callback, todo, status, exit, wp_vars, cc_vars, fl_vars>>

\* main.rs 164-171: the clone succeeded; the TempDir is moved into
\* TEMP_DIRS and the clone path returned.
CloneOk ==
    /\ pc = "cloning"
    /\ stdout' = Append(stdout, <<"cloned">>)
    /\ TEMP_DIRS' = Append(TEMP_DIRS, temp_dir)
    /\ repo_path' = temp_dir
    /\ temp_dir' = NoValue
    /\ pc' = "dispatch"
    /\ UNCHANGED <<command, url, json, disk, callback_calls, last_callback, todo,
                   status, exit, wp_vars, cc_vars, fl_vars>>

\* main.rs 172-175: the clone failed; temp_dir is dropped on return, which
\* removes the directory, and the error returns through main.
CloneErr ==
    /\ pc = "cloning"
    /\ stdout' = Append(stdout, <<"clone_failed">>)
    /\ disk' = disk \ {temp_dir}
    /\ temp_dir' = NoValue
    /\ exit' = "error"
    /\ pc' = "main_returned"
    /\ UNCHANGED <<command, url, json, TEMP_DIRS, repo_path, callback_calls,
                   last_callback, todo, status, wp_vars, cc_vars, fl_vars>>

\* main.rs 105, 109, 113, 117 and 514: main calls the command's function;
\* analyze_all prints its heading.
EnterCommand ==
    /\ pc = "dispatch"
    /\ todo' = analyses_of(command)
    /\ stdout' = IF command = "all" THEN Append(stdout, <<"running_all">>) ELSE stdout
    /\ pc' = "analyze"
    /\ UNCHANGED <<command, url, json, TEMP_DIRS, temp_dir, disk, repo_path,
                   callback_calls, last_callback, status, exit,
                   wp_vars, cc_vars, fl_vars>>

\* main.rs 186, 344, 439: the next analysis is entered.
AnalysisStart ==
    /\ pc = "analyze"
    /\ todo # <<>>
    /\ status[Head(todo)] = "not_started"
    /\ status' = [status EXCEPT ![Head(todo)] = "running"]
    /\ UNCHANGED <<pc, command, url, json, TEMP_DIRS, temp_dir, disk, repo_path,
                   callback_calls, last_callback, todo, stdout, exit,
                   wp_vars, cc_vars, fl_vars>>

\* main.rs 186-187, 344-345, 439-440: Repository::open or the walk of
\* collect_* returns an error, which `?` passes up before anything of this
\* analysis is printed.
AnalysisError ==
    /\ pc = "analyze"
    /\ todo # <<>>
    /\ status[Head(todo)] = "running"
    /\ status' = [status EXCEPT ![Head(todo)] = "failed"]
    /\ todo' = after_failure(todo)
    /\ IF todo' = <<>>
       THEN exit' = "error" /\ pc' = "main_returned"
       ELSE UNCHANGED <<exit, pc>>
    /\ UNCHANGED <<command, url, json, TEMP_DIRS, temp_dir, disk, repo_path,
                   callback_calls, last_callback, stdout, wp_vars, cc_vars, fl_vars>>

\* main.rs 189-221, 347-366, 442-458: the walk succeeded; the report is
\* printed and the analysis returns Ok.
AnalysisReport ==
    /\ pc = "analyze"
    /\ todo # <<>>
    /\ status[Head(todo)] = "running"
    /\ stdout' = Append(stdout, report_of(Head(todo), json))
    /\ status' = [status EXCEPT ![Head(todo)] = "ok"]
    /\ todo' = Tail(todo)
    /\ UNCHANGED <<pc, command, url, json, TEMP_DIRS, temp_dir, disk, repo_path,
                   callback_calls, last_callback, exit, wp_vars, cc_vars, fl_vars>>

\* main.rs 121: every analysis of the command returned Ok.
MainReturnOk ==
    /\ pc = "analyze"
    /\ todo = <<>>
    /\ exit' = "ok"
    /\ pc' = "main_returned"
    /\ UNCHANGED <<command, url, json, TEMP_DIRS, temp_dir, disk, repo_path,
                   callback_calls, last_callback, todo, status, stdout,
                   wp_vars, cc_vars, fl_vars>>

\* main.rs 13-14: the process ends after main.  TEMP_DIRS is a static, and
\* Rust runs no destructor for a static: the TempDirs in it are not dropped
\* and their directories stay on disk.
ProcessExit ==
    /\ pc = "main_returned"
    /\ pc' = "exited"
    /\ UNCHANGED <<command, url, json, TEMP_DIRS, temp_dir, disk, repo_path,
                   callback_calls, last_callback, todo, status, stdout, exit,
                   wp_vars, cc_vars, fl_vars>>

(***************************************************************************)
(* The specifications.                                                     *)
(***************************************************************************)
InitPattern == WPInit /\ CCIdle /\ FLIdle /\ CLIIdle
NextPattern ==
    \/ \E time \in PatternTimes : WPLoop(time)
    \/ WPReturn
SpecPattern == InitPattern /\ [][NextPattern]_vars

InitContrib == WPIdle /\ CCInit /\ FLIdle /\ CLIIdle
NextContrib ==
    \/ \E commit \in CommitInputs : CCVisit(commit)
    \/ CCWalkError
    \/ CCReturn
SpecContrib == InitContrib /\ [][NextContrib]_vars

InitFiles == WPIdle /\ CCIdle /\ FLInit /\ CLIIdle
NextFiles ==
    \/ FLVisit
    \/ FLWalkError
    \/ FLReturn
SpecFiles == InitFiles /\ [][NextFiles]_vars

InitCli == WPIdle /\ CCIdle /\ FLIdle /\ CLIInit
NextCli ==
    \/ GetRepoPathLocal
    \/ GetRepoPathInvalidUrl
    \/ CloneStart
    \/ TempDirError
    \/ \E total_objects \in 0..MaxObjects :
          \E received_objects \in 0..total_objects :
             TransferProgress(received_objects, total_objects)
    \/ UpdateTips
    \/ CloneOk
    \/ CloneErr
    \/ EnterCommand
    \/ AnalysisStart
    \/ AnalysisError
    \/ AnalysisReport
    \/ MainReturnOk
    \/ ProcessExit
SpecCli == InitCli /\ [][NextCli]_vars

(***************************************************************************)
(* Claims about calculate_work_pattern, stated over what the loop read.    *)
(***************************************************************************)
RECURSIVE SeenIn(_)
\* How many of the instants read lie in the set S.
SeenIn(S) ==
    IF S = {} THEN 0
    ELSE LET t == CHOOSE x \in S : TRUE
         IN  CopiesIn(t, wp_seen) + SeenIn(S \ {t})

\* The calendar facts of the input instants, written out by hand.
DayTimes     == {Thu1000, Sun1200, Mon0900, Wed1759}   \* 9 <= hour < 18
WeekendTimes == {Sat0200, Sun1200}                     \* Saturday or Sunday

SeenTotal   == SeenIn(PatternTimes)
SeenDay     == SeenIn(DayTimes)
SeenNight   == SeenTotal - SeenDay
SeenWeekend == SeenIn(WeekendTimes)
AbsDiff(a, b) == IF a < b THEN b - a ELSE a - b

\* The rule list of the specification, in integers: each ratio is the tally
\* over SeenTotal, so r >= 0.7 reads 10 * tally >= 7 * total.
ExpectedLabel ==
    IF SeenTotal < 5 THEN "unknown"
    ELSE IF 10 * SeenDay >= 7 * SeenTotal /\ 10 * SeenWeekend < 3 * SeenTotal
    THEN "day_worker"
    ELSE IF 10 * SeenNight >= 6 * SeenTotal \/ 10 * SeenWeekend >= 4 * SeenTotal
    THEN "moonlighter"
    ELSE "mixed"

\* The confidence of the rule chosen, as numerator over 2 * SeenTotal.
ExpectedConfidenceTimes2Total ==
    CASE ExpectedLabel = "unknown"     -> 0
      [] ExpectedLabel = "day_worker"  -> 2 * SeenDay
      [] ExpectedLabel = "moonlighter" ->
            IF 2 * SeenNight + SeenWeekend > 2 * SeenTotal
            THEN 2 * SeenTotal ELSE 2 * SeenNight + SeenWeekend
      [] ExpectedLabel = "mixed"       ->
            2 * SeenTotal - 2 * AbsDiff(SeenDay, SeenNight)

ConfidenceIs(n, d) == work_pattern.confidence.num * d = n * work_pattern.confidence.den

\* C1: calculate_work_pattern returns the label and the confidence of the
\* first matching rule (unknown below 5 commits; day_worker; moonlighter;
\* mixed), with day = 9 <= hour < 18, night every other hour and weekend =
\* Saturday or Sunday; 10 weekday commits at 10:00 give day_worker 1.0, 10
\* weekday commits at hour 23 give moonlighter 1.0, 5 day plus 5 night weekday
\* commits give mixed 1.0.
C1_FirstMatchingRule ==
    wp_pc = "done" =>
        /\ work_pattern.pattern_type = ExpectedLabel
        /\ work_pattern.confidence.den > 0
        /\ IF SeenTotal < 5
           THEN work_pattern.confidence.num = 0
           ELSE ConfidenceIs(ExpectedConfidenceTimes2Total, 2 * SeenTotal)
        /\ work_pattern.day_commits = SeenDay
        /\ work_pattern.night_commits = SeenNight
        /\ work_pattern.weekend_commits = SeenWeekend
        /\ (CopiesIn(Thu1000, wp_seen) = 10 /\ SeenTotal = 10
               => work_pattern.pattern_type = "day_worker" /\ ConfidenceIs(1, 1))
        /\ (CopiesIn(Thu2300, wp_seen) = 10 /\ SeenTotal = 10
               => work_pattern.pattern_type = "moonlighter" /\ ConfidenceIs(1, 1))
        /\ (SeenDay = 5 /\ SeenNight = 5 /\ SeenWeekend = 0
               => work_pattern.pattern_type = "mixed" /\ ConfidenceIs(1, 1))

\* C1 witness: 5 day and 5 night weekday commits were classified mixed, 1.0.
C1_Witness ==
    /\ wp_pc = "done"
    /\ SeenDay = 5 /\ SeenNight = 5 /\ SeenWeekend = 0
    /\ work_pattern.pattern_type = "mixed"
    /\ ConfidenceIs(1, 1)

\* C2: fewer than 5 timestamps are always classified unknown with
\* confidence 0.0, whatever their hours and weekdays.
C2_BelowThresholdUnknown ==
    wp_pc = "done" /\ wp_len < 5 =>
        /\ work_pattern.pattern_type = "unknown"
        /\ work_pattern.confidence.num = 0
        /\ work_pattern.confidence.den > 0

\* C2 witness: four commits, all at night on a weekend, came out unknown.
C2_Witness ==
    /\ wp_pc = "done"
    /\ wp_len = 4
    /\ CopiesIn(Sat0200, wp_seen) = 4
    /\ work_pattern.pattern_type = "unknown"

\* C3: the confidence returned lies in [0.0, 1.0] under every label.
C3_ConfidenceInUnitInterval ==
    wp_pc = "done" =>
        /\ work_pattern.confidence.den > 0
        /\ work_pattern.confidence.num >= 0
        /\ work_pattern.confidence.num <= work_pattern.confidence.den

\* C3 witness: a moonlighter whose night_ratio + 0.5 * weekend_ratio exceeds
\* 1.0 was returned with confidence 1.0.
C3_Witness ==
    /\ wp_pc = "done"
    /\ work_pattern.pattern_type = "moonlighter"
    /\ 2 * night_commits + weekend_commits > 2 * wp_len
    /\ ConfidenceIs(1, 1)

(***************************************************************************)
(* Claims about collect_contributor_data.                                  *)
(***************************************************************************)
\* The key of a returned ContributorStats.
StatsKey(stats) == stats.name \o " <" \o stats.email \o ">"

\* The sequence seq with the elements at i and j exchanged.
Swap(seq, i, j) ==
    [k \in 1..Len(seq) |-> IF k = i THEN seq[j] ELSE IF k = j THEN seq[i] ELSE seq[k]]

\* The returned statistics agree with those the map `other` finishes to.
AgreesWith(other) ==
    /\ DOMAIN other = { StatsKey(sorted_contributors[k]) :
                           k \in 1..Len(sorted_contributors) }
    /\ \A k \in 1..Len(sorted_contributors) :
          LET mine   == sorted_contributors[k]
              theirs == finish_stats(other[StatsKey(mine)])
          IN  /\ mine.commits = theirs.commits
              /\ mine.first_commit = theirs.first_commit
              /\ mine.last_commit = theirs.last_commit
              /\ mine.hourly_commits = theirs.hourly_commits
              /\ mine.work_pattern = theirs.work_pattern

\* C4: the contributor fold does not depend on the visit order: the walk
\* just finished and the same commits with any two of them exchanged give
\* every contributor the same commit count, first_commit, last_commit,
\* hourly histogram and work pattern.  Every sequence within the bound is
\* walked, and exchanges of two elements generate every permutation.
C4_VisitOrderIndependent ==
    cc_pc = "done" =>
        \A i, j \in 1..Len(walked) :
            i < j => AgreesWith(fold_contributors(Swap(walked, i, j)))

\* C4 witness: a finished walk that met a contributor's later commit before
\* an earlier one, and again a later one, and classified a contributor.
C4_Witness ==
    /\ cc_pc = "done"
    /\ \E i, j, k \in 1..Len(walked) :
          /\ i < j /\ j < k
          /\ walked[i].name = "Alice" /\ walked[j].name = "Alice"
          /\ walked[k].name = "Alice"
          /\ commit_time_of(walked[i]) > commit_time_of(walked[j])
          /\ commit_time_of(walked[k]) > commit_time_of(walked[j])
    /\ \E n \in 1..Len(sorted_contributors) :
          sorted_contributors[n].work_pattern.pattern_type # "unknown"

\* The key the specification gives a commit.
ExpectedKey(commit) ==
    (IF commit.name = Absent THEN "Unknown" ELSE commit.name)
        \o " <"
        \o (IF commit.email = Absent THEN "unknown@example.com" ELSE commit.email)
        \o ">"

\* The indices of the walked commits whose key is key.
WalkedWithKey(key) == { i \in 1..Len(walked) : ExpectedKey(walked[i]) = key }

\* The instant of a walked commit: its author seconds, or the epoch.
ExpectedTime(commit) == IF commit.beyond_chrono THEN 0 ELSE commit.seconds

RECURSIVE SumOfCommits(_)
SumOfCommits(seq) ==
    IF seq = <<>> THEN 0
    ELSE seq[Len(seq)].commits + SumOfCommits(SubSeq(seq, 1, Len(seq) - 1))

\* C5: after the walk every commit is counted in exactly one record, the
\* one keyed "{name} <{email}>" with "Unknown" and "unknown@example.com" for
\* an absent name and email; a record's commits is the number of walked
\* commits with its key, first_commit their earliest and last_commit their
\* latest timestamp, and the commits of all records sum to the number of
\* commits walked.
C5_EveryCommitInOneRecord ==
    cc_pc = "done" =>
        /\ \A i \in 1..Len(walked) :
              Cardinality({ k \in 1..Len(sorted_contributors) :
                              StatsKey(sorted_contributors[k]) = ExpectedKey(walked[i]) }) = 1
        /\ \A k \in 1..Len(sorted_contributors) :
              LET record == sorted_contributors[k]
                  mine   == WalkedWithKey(StatsKey(record))
              IN  /\ mine # {}
                  /\ record.commits = Cardinality(mine)
                  /\ \E i \in mine : record.first_commit = ExpectedTime(walked[i])
                  /\ \A i \in mine : record.first_commit <= ExpectedTime(walked[i])
                  /\ \E i \in mine : record.last_commit = ExpectedTime(walked[i])
                  /\ \A i \in mine : record.last_commit >= ExpectedTime(walked[i])
        /\ SumOfCommits(sorted_contributors) = Len(walked)

\* C5 witness: a finished walk over commits with and without author name
\* and email, whose records number fewer than the commits.
C5_Witness ==
    /\ cc_pc = "done"
    /\ \E i, j \in 1..Len(walked) :
          /\ walked[i].name = Absent /\ walked[i].email = Absent
          /\ walked[j].name = "Bob" /\ walked[j].email = Absent
    /\ \E k \in 1..Len(sorted_contributors) :
          /\ sorted_contributors[k].name = "Unknown"
          /\ sorted_contributors[k].commits >= 2
          /\ sorted_contributors[k].first_commit < sorted_contributors[k].last_commit
    /\ Len(sorted_contributors) < Len(walked)

(***************************************************************************)
(* Claims about collect_file_data.                                         *)
(***************************************************************************)
CommitIndices == 1..Len(repo)

\* The commit at index changes path against its parent.
Touches(index, path) ==
    index > 1 /\ repo[index].tree[path] # repo[index - 1].tree[path]

\* path first exists in the commit at index a.
IntroducedIn(a, path) ==
    /\ repo[a].tree[path] # "absent"
    /\ \A k \in 1..(a - 1) : repo[k].tree[path] = "absent"

\* The commit at index b, a later one than a, changes the content of path.
ModifiedIn(b, path) ==
    /\ b > 1
    /\ repo[b].tree[path] # "absent"
    /\ repo[b - 1].tree[path] # "absent"
    /\ repo[b].tree[path] # repo[b - 1].tree[path]

\* path is introduced in a, modified in the later b, touched by no other.
IntroducedThenModified(a, b, path) ==
    /\ a < b
    /\ IntroducedIn(a, path)
    /\ ModifiedIn(b, path)
    /\ \A k \in CommitIndices \ {a, b} : ~Touches(k, path)

\* path is in the root commit and no commit with a parent changes it.
OnlyInRoot(path) ==
    /\ repo[1].tree[path] # "absent"
    /\ \A k \in CommitIndices : ~Touches(k, path)

Recorded(path) == \E n \in 1..Len(sorted_files) : sorted_files[n].path = path
RecordOf(path) ==
    sorted_files[CHOOSE n \in 1..Len(sorted_files) : sorted_files[n].path = path]
Later(t1, t2) == IF t1 > t2 THEN t1 ELSE t2

\* C6 as stated: a path introduced in commit A and modified again in a
\* later commit B, touched by no other commit, ends with commits = 2 and
\* last_modified = B's timestamp; a path only ever present in a root commit
\* is never recorded.
C6_AsStated ==
    fl_pc = "done" =>
        \A path \in Paths :
            /\ \A a, b \in CommitIndices :
                  IntroducedThenModified(a, b, path) =>
                      /\ Recorded(path)
                      /\ RecordOf(path).commits = 2
                      /\ RecordOf(path).last_modified = repo[b].seconds
            /\ (OnlyInRoot(path) => ~Recorded(path))

\* C6 amended: when A has a parent the path ends with commits = 2 and
\* last_modified = the later of A's and B's author timestamps; when A is the
\* root commit it ends with commits = 1 and last_modified = B's timestamp; a
\* path of the root commit that no commit with a parent changes is never
\* recorded.
C6_Amended ==
    fl_pc = "done" =>
        \A path \in Paths :
            /\ \A a, b \in CommitIndices :
                  IntroducedThenModified(a, b, path) =>
                      /\ Recorded(path)
                      /\ Cardinality({ n \in 1..Len(sorted_files) :
                                         sorted_files[n].path = path }) = 1
                      /\ IF a > 1
                         THEN /\ RecordOf(path).commits = 2
                              /\ RecordOf(path).last_modified =
                                    Later(repo[a].seconds, repo[b].seconds)
                         ELSE /\ RecordOf(path).commits = 1
                              /\ RecordOf(path).last_modified = repo[b].seconds
            /\ (OnlyInRoot(path) => ~Recorded(path))

\* C6 witness: a finished walk of a history whose second commit introduced
\* src/main.rs with the later author time and whose third modified it, next
\* to a README.md that only the root commit holds.
C6_Witness ==
    /\ fl_pc = "done"
    /\ Len(repo) = 3
    /\ IntroducedThenModified(2, 3, "src/main.rs")
    /\ repo[2].seconds > repo[3].seconds
    /\ OnlyInRoot("README.md")
    /\ Recorded("src/main.rs")
    /\ RecordOf("src/main.rs").commits = 2
    /\ RecordOf("src/main.rs").last_modified = repo[2].seconds
    /\ ~Recorded("README.md")

(***************************************************************************)
(* Claims about the commands.                                              *)
(***************************************************************************)
IsReport(line) == line[1] = "report"
Reports == SelectSeq(stdout, IsReport)
MainIsOver == pc \in {"main_returned", "exited"}
SomeAnalysisFailed == \E a \in Analyses : status[a] = "failed"
Registered == { TEMP_DIRS[i] : i \in 1..Len(TEMP_DIRS) }
Printed(word) == \E i \in 1..Len(stdout) : stdout[i][1] = word

\* C7: when an analysis of the invocation fails (opening the repository,
\* resolving HEAD or dereferencing a commit), the invocation has printed no
\* analysis report and returns the error; for each of contributors,
\* activity, files and all.
C7_NoPartialResults ==
    MainIsOver /\ SomeAnalysisFailed => Reports = <<>> /\ exit = "error"

\* C8: `all` runs contributors, activity, files in this order; activity
\* starts only after contributors succeeded, files only after activity
\* succeeded; once an analysis has failed none is running or started later
\* and the command ends with the error.
C8_AllStopsAtFirstFailure ==
    command = "all" =>
        /\ status["activity"] # "not_started" => status["contributors"] = "ok"
        /\ status["files"] # "not_started" => status["activity"] = "ok"
        /\ \A i \in 1..Len(Reports) : Reports[i][2] = analyses_of("all")[i]
        /\ SomeAnalysisFailed =>
              /\ MainIsOver
              /\ exit = "error"
              /\ \A a \in Analyses : status[a] # "running"
        /\ exit = "ok" => \A a \in Analyses : status[a] = "ok"

\* C8 witness: `all` has ended with the error of activity, after the report
\* of contributors, and files was never started.
C8_Witness ==
    /\ command = "all"
    /\ pc = "exited"
    /\ status["contributors"] = "ok"
    /\ status["activity"] = "failed"
    /\ status["files"] = "not_started"
    /\ Len(Reports) = 1
    /\ exit = "error"

\* C9: after a successful clone the directory is registered before the
\* path is returned, stays registered and on disk while an analysis runs,
\* and is released at process exit; a malformed URL or a failed clone
\* registers nothing and returns an error; without a URL the local path is
\* returned unchanged and the registry is left unchanged.
C9_CloneDirectoryLifetime ==
    /\ url = "valid" /\ repo_path # NoValue =>
          repo_path = CloneDir /\ repo_path \in Registered
    /\ url = "valid" /\ (\E a \in Analyses : status[a] = "running") =>
          CloneDir \in Registered /\ CloneDir \in disk
    /\ pc = "exited" => disk = {}
    /\ url = "malformed" \/ Printed("clone_failed") =>
          /\ TEMP_DIRS = <<>>
          /\ repo_path = NoValue
          /\ MainIsOver => exit = "error"
    /\ url = "none" =>
          /\ TEMP_DIRS = <<>>
          /\ repo_path \in {NoValue, LocalPath}
          /\ pc \in {"dispatch", "analyze", "main_returned", "exited"} =>
                repo_path = LocalPath

\* C10: the transfer-progress callback never panics and returns true for
\* every report with 0 <= received_objects <= total_objects, total_objects
\* = 0 included.
C10_ProgressCallbackReturnsTrue ==
    last_callback \in {NoValue, "true"}

=============================================================================
